---------------------------- MODULE Spec2Model ----------------------------
(***************************************************************************)
(* YuE front end: the request-to-invocation translation and the output     *)
(* discovery of src/api_server.py (REST handler generate_music) and        *)
(* src/gradio_ui.py (UI handler generate_wrapper / run_inference).         *)
(*                                                                         *)
(* Python strings are modelled as TLA+ strings when they are atoms of the  *)
(* argument list, and as sequences of such atoms ("texts") when they are   *)
(* built by an f-string or by ' '.join: concatenation is \o and "contains" *)
(* is contiguous sub-sequence.                                             *)
(***************************************************************************)
EXTENDS Integers, Sequences, FiniteSets, TLC

(***************************************************************************)
(* Bounds of the model.                                                    *)
(***************************************************************************)
\* number of distinct names the temporary directory can hand out
MaxTmp == 3
\* greatest modification time a file of the output directory can carry
MaxTime == 2

(***************************************************************************)
(* Configuration (environment defaults).                                   *)
(***************************************************************************)
STAGE1_MODEL == "m-a-p/YuE-s1-7B-anneal-en-icl"
STAGE2_MODEL == "m-a-p/YuE-s2-1B-general"
CUDA_IDX == "0"
OUTPUT_DIR == "/app/output"
INFERENCE_SCRIPT == "/app/inference/infer.py"

(***************************************************************************)
(* Python values.                                                          *)
(***************************************************************************)
\* Python's None, as a string no path, text or flag equals
None == "<None>"

\* Python truthiness of an Optional[str]: None and "" are falsy
Truthy(s) == s # None /\ s # ""

\* `x or ""` of generate_wrapper
OrEmpty(s) == IF Truthy(s) THEN s ELSE ""

\* an int, and a float given in tenths (11 is 1.1)
PyInt(n) == [ty |-> "int", v |-> n]
PyFloat(tenths) == [ty |-> "float", v |-> tenths]

\* a number widget left empty (None where a number is expected)
PyNone == [ty |-> "none", v |-> 0]

\* truthiness of a number: None and zero are falsy
NumTruthy(x) == x.ty # "none" /\ x.v # 0

\* `x is not None` for a number
IsNotNone(x) == x.ty # "none"

Abs(n) == IF n < 0 THEN -n ELSE n

\* str(x) of an int or of a float with one decimal: str(5.0) = "5.0", str(0) = "0"
PyStr(x) ==
    IF x.ty = "int"
    THEN ToString(x.v)
    ELSE (IF x.v < 0 THEN "-" ELSE "")
         \o ToString(Abs(x.v) \div 10) \o "." \o ToString(Abs(x.v) % 10)

\* int(x) and float(x) of generate_wrapper (slider values are whole numbers or tenths)
ToInt(x) == IF x.ty = "int" THEN x ELSE PyInt(IF x.v < 0 THEN -(Abs(x.v) \div 10) ELSE x.v \div 10)
ToFloat(x) == IF x.ty = "float" THEN x ELSE PyFloat(x.v * 10)

\* ' '.join(cmd): the atoms of cmd with a blank between neighbours
RECURSIVE Join(_)
Join(cmd) ==
    IF Len(cmd) = 0 THEN <<>>
    ELSE IF Len(cmd) = 1 THEN <<cmd[1]>>
    ELSE <<cmd[1], " ">> \o Join(Tail(cmd))

\* text t holds text s as a contiguous part (Python's `s in t`)
Contains(t, s) ==
    \E i \in 0..(Len(t) - Len(s)) :
        \A j \in 1..Len(s) : t[i + j] = s[j]

(***************************************************************************)
(* The flags of the external program's command line.                       *)
(***************************************************************************)
PrefixFlags ==
    <<"--cuda_idx", "--stage1_model", "--stage2_model", "--run_n_segments",
      "--stage2_batch_size", "--output_dir", "--max_new_tokens",
      "--repetition_penalty">>

ModeFlags == {"--use_dual_tracks_prompt", "--use_audio_prompt"}
PathFlags == {"--vocal_track_prompt_path", "--instrumental_track_prompt_path",
              "--audio_prompt_path"}
TimeFlags == {"--prompt_start_time", "--prompt_end_time"}

Flags ==
    {PrefixFlags[i] : i \in 1..Len(PrefixFlags)}
    \cup {"--genre_txt", "--lyrics_txt"} \cup ModeFlags \cup PathFlags \cup TimeFlags


(***************************************************************************)
(* api_server.py: composition of the command in generate_music.            *)
(***************************************************************************)
\* ApiPrefix with --output_dir written before --stage2_batch_size
ApiPrefixReordered(request) ==
    <<"python", INFERENCE_SCRIPT,
      "--cuda_idx", CUDA_IDX,
      "--stage1_model", STAGE1_MODEL,
      "--stage2_model", STAGE2_MODEL,
      "--run_n_segments", PyStr(request.run_n_segments),
      "--output_dir", OUTPUT_DIR,
      "--stage2_batch_size", PyStr(request.stage2_batch_size),
      "--max_new_tokens", PyStr(request.max_new_tokens),
      "--repetition_penalty", PyStr(request.repetition_penalty)>>

\* cmd = ["python", INFERENCE_SCRIPT, "--cuda_idx", CUDA_IDX, ...]
ApiPrefix(request) ==
    <<"python", INFERENCE_SCRIPT,
      "--cuda_idx", CUDA_IDX,
      "--stage1_model", STAGE1_MODEL,
      "--stage2_model", STAGE2_MODEL,
      "--run_n_segments", PyStr(request.run_n_segments),
      "--stage2_batch_size", PyStr(request.stage2_batch_size),
      "--output_dir", OUTPUT_DIR,
      "--max_new_tokens", PyStr(request.max_new_tokens),
      "--repetition_penalty", PyStr(request.repetition_penalty)>>

\* ApiStagesGenre with the text tested by `if` instead of `elif`
ApiStagesGenreIgnoringFile(request) == Truthy(request.genre_txt)

\* the branch `elif request.genre_txt:` is taken: a temporary file is written
ApiStagesGenre(request) == ~Truthy(request.genre_file) /\ Truthy(request.genre_txt)

\* the branch `elif request.lyrics_txt:` is taken
ApiStagesLyrics(request) == ~Truthy(request.lyrics_file) /\ Truthy(request.lyrics_txt)

\* `if request.genre_file: ... elif request.genre_txt: ...`; fname is f.name
ApiGenreArgs(request, fname) ==
    IF Truthy(request.genre_file) THEN <<"--genre_txt", request.genre_file>>
    ELSE IF Truthy(request.genre_txt) THEN <<"--genre_txt", fname>>
    ELSE <<>>

\* `if request.lyrics_file: ... elif request.lyrics_txt: ...`; fname is f.name
ApiLyricsArgs(request, fname) ==
    IF Truthy(request.lyrics_file) THEN <<"--lyrics_txt", request.lyrics_file>>
    ELSE IF Truthy(request.lyrics_txt) THEN <<"--lyrics_txt", fname>>
    ELSE <<>>

\* the two time-bound pairs, each under its `is not None` test
ApiTimeArgs(request) ==
    (IF IsNotNone(request.prompt_start_time)
     THEN <<"--prompt_start_time", PyStr(request.prompt_start_time)>> ELSE <<>>)
    \o (IF IsNotNone(request.prompt_end_time)
        THEN <<"--prompt_end_time", PyStr(request.prompt_end_time)>> ELSE <<>>)

\* ApiPromptArgs with the single-track branch under `if` instead of `elif`
ApiPromptArgsTwoIfs(request) ==
    (IF request.use_dual_tracks_prompt
     THEN <<"--use_dual_tracks_prompt">>
          \o (IF Truthy(request.vocal_track_prompt_path)
              THEN <<"--vocal_track_prompt_path", request.vocal_track_prompt_path>>
              ELSE <<>>)
          \o (IF Truthy(request.instrumental_track_prompt_path)
              THEN <<"--instrumental_track_prompt_path",
                     request.instrumental_track_prompt_path>>
              ELSE <<>>)
          \o ApiTimeArgs(request)
     ELSE <<>>)
    \o (IF request.use_audio_prompt
        THEN <<"--use_audio_prompt">>
             \o (IF Truthy(request.audio_prompt_path)
                 THEN <<"--audio_prompt_path", request.audio_prompt_path>>
                 ELSE <<>>)
             \o ApiTimeArgs(request)
        ELSE <<>>)

\* `if request.use_dual_tracks_prompt: ... elif request.use_audio_prompt: ...`
ApiPromptArgs(request) ==
    IF request.use_dual_tracks_prompt
    THEN <<"--use_dual_tracks_prompt">>
         \o (IF Truthy(request.vocal_track_prompt_path)
             THEN <<"--vocal_track_prompt_path", request.vocal_track_prompt_path>>
             ELSE <<>>)
         \o (IF Truthy(request.instrumental_track_prompt_path)
             THEN <<"--instrumental_track_prompt_path",
                    request.instrumental_track_prompt_path>>
             ELSE <<>>)
         \o ApiTimeArgs(request)
    ELSE IF request.use_audio_prompt
    THEN <<"--use_audio_prompt">>
         \o (IF Truthy(request.audio_prompt_path)
             THEN <<"--audio_prompt_path", request.audio_prompt_path>>
             ELSE <<>>)
         \o ApiTimeArgs(request)
    ELSE <<>>

(***************************************************************************)
(* gradio_ui.py: generate_wrapper and composition in run_inference.        *)
(***************************************************************************)
\* `p if use and p else None` (a filepath widget yields a path or None)
GatedPath(use, p) == IF use /\ Truthy(p) THEN p ELSE None

\* generate_wrapper: the arguments it hands to run_inference for widget values w
WrapperArgs(w) ==
    [genre_txt |-> OrEmpty(w.genre),
     lyrics_txt |-> OrEmpty(w.lyrics),
     run_n_segments |-> ToInt(w.segments),
     stage2_batch_size |-> ToInt(w.batch_size),
     max_new_tokens |-> ToInt(w.max_tokens),
     repetition_penalty |-> ToFloat(w.rep_penalty),
     use_audio_prompt |-> w.use_audio,
     audio_prompt_path |-> GatedPath(w.use_audio, w.audio_path),
     prompt_start_time |-> IF NumTruthy(w.start_time) THEN ToFloat(w.start_time)
                           ELSE PyFloat(0),
     prompt_end_time |-> IF NumTruthy(w.end_time) THEN ToFloat(w.end_time)
                         ELSE PyFloat(300),
     use_dual_tracks_prompt |-> w.use_dual,
     vocal_track_prompt_path |-> GatedPath(w.use_dual, w.vocal_path),
     instrumental_track_prompt_path |-> GatedPath(w.use_dual, w.inst_path),
     stage1_model |-> w.s1_model,
     stage2_model |-> w.s2_model]

\* cmd = ["python", INFERENCE_SCRIPT, "--cuda_idx", CUDA_IDX, ...]
UiPrefix(a) ==
    <<"python", INFERENCE_SCRIPT,
      "--cuda_idx", CUDA_IDX,
      "--stage1_model", a.stage1_model,
      "--stage2_model", a.stage2_model,
      "--run_n_segments", PyStr(a.run_n_segments),
      "--stage2_batch_size", PyStr(a.stage2_batch_size),
      "--output_dir", OUTPUT_DIR,
      "--max_new_tokens", PyStr(a.max_new_tokens),
      "--repetition_penalty", PyStr(a.repetition_penalty)>>

\* `if genre_txt:` and `if lyrics_txt:`
UiStagesGenre(a) == Truthy(a.genre_txt)
UiStagesLyrics(a) == Truthy(a.lyrics_txt)

UiGenreArgs(a, fname) == IF Truthy(a.genre_txt) THEN <<"--genre_txt", fname>> ELSE <<>>
\* UiLyricsArgs with the flag of the genre block pasted in
UiLyricsArgsGenreFlag(a, fname) ==
    IF Truthy(a.lyrics_txt) THEN <<"--genre_txt", fname>> ELSE <<>>

UiLyricsArgs(a, fname) == IF Truthy(a.lyrics_txt) THEN <<"--lyrics_txt", fname>> ELSE <<>>

\* UiTimeArgs with the two values exchanged
UiTimeArgsSwapped(a) ==
    (IF IsNotNone(a.prompt_start_time)
     THEN <<"--prompt_start_time", PyStr(a.prompt_end_time)>> ELSE <<>>)
    \o (IF IsNotNone(a.prompt_end_time)
        THEN <<"--prompt_end_time", PyStr(a.prompt_start_time)>> ELSE <<>>)

\* the two time-bound pairs, each under its `is not None` test
UiTimeArgs(a) ==
    (IF IsNotNone(a.prompt_start_time)
     THEN <<"--prompt_start_time", PyStr(a.prompt_start_time)>> ELSE <<>>)
    \o (IF IsNotNone(a.prompt_end_time)
        THEN <<"--prompt_end_time", PyStr(a.prompt_end_time)>> ELSE <<>>)

\* `if use_dual_tracks_prompt: ... elif use_audio_prompt: ...`
UiPromptArgs(a) ==
    IF a.use_dual_tracks_prompt
    THEN <<"--use_dual_tracks_prompt">>
         \o (IF Truthy(a.vocal_track_prompt_path)
             THEN <<"--vocal_track_prompt_path", a.vocal_track_prompt_path>>
             ELSE <<>>)
         \o (IF Truthy(a.instrumental_track_prompt_path)
             THEN <<"--instrumental_track_prompt_path", a.instrumental_track_prompt_path>>
             ELSE <<>>)
         \o UiTimeArgs(a)
    ELSE IF a.use_audio_prompt
    THEN <<"--use_audio_prompt">>
         \o (IF Truthy(a.audio_prompt_path)
             THEN <<"--audio_prompt_path", a.audio_prompt_path>>
             ELSE <<>>)
         \o UiTimeArgs(a)
    ELSE <<>>


(***************************************************************************)
(* The file systems the handlers share.                                    *)
(***************************************************************************)
\* the names tempfile.NamedTemporaryFile(suffix='.txt') can hand out
TmpPath(i) == "/tmp/tmp" \o ToString(i) \o ".txt"
TmpNames == {TmpPath(i) : i \in 1..MaxTmp}

\* the files the external program can leave in OUTPUT_DIR (one of them no audio)
OutFiles ==
    {[stem |-> "a", ext |-> "wav"], [stem |-> "b", ext |-> "mp3"],
     [stem |-> "c", ext |-> "mp3"], [stem |-> "d", ext |-> "txt"]}

\* Path.name and str(Path) of a file of OUTPUT_DIR
FileName(f) == f.stem \o "." \o f.ext
FilePath(f) == OUTPUT_DIR \o "/" \o FileName(f)

\* what the external program can report when it ends: (returncode, stdout, stderr)
ProcResults ==
    {[returncode |-> 0, stdout |-> "Saved mix", stderr |-> ""],
     [returncode |-> 1, stdout |-> "", stderr |-> "CUDA OOM"]}

\* str(e) of the OSError of a failing NamedTemporaryFile / subprocess.run
TmpErrorText == <<"[Errno 28] No space left on device">>
LaunchErrorText == <<"[Errno 2] No such file or directory: ", "'python'">>

VARIABLES
    tmp,            \* the temporary directory: name -> content, None when no such file
    outdir,         \* OUTPUT_DIR: file -> modification time, 0 when no such file
    outDirExists,   \* whether OUTPUT_DIR exists
    api,            \* generate_music: the last request, its cmd, its response
    apiProc,        \* the external process run for the last API request
    ui,             \* run_inference: per UI session, the frame of the handler
                    \* (pc: where it is; ret: which return statement ended it)
    panel           \* the audio prompt accordion of the page: the values of its two
                    \* checkboxes and the visibility of its five inputs

vars == <<tmp, outdir, outDirExists, api, apiProc, ui, panel>>

UiSlots == {"u1", "u2"}

\* a local variable of record type that has not been assigned
Unset == [unset |-> TRUE]

\* the frame of a handler that has not been called
ApiIdle ==
    [pc |-> "idle", request |-> Unset, cmd |-> <<>>, staged |-> {},
     status_code |-> 0, body |-> Unset, detail |-> <<>>]

UiIdle ==
    [pc |-> "idle", args |-> Unset, cmd |-> <<>>, staged |-> {}, runs |-> 0,
     result |-> Unset, scanned |-> FALSE, audio_files |-> <<>>,
     ret |-> "", audio |-> None, status |-> <<>>]

\* names NamedTemporaryFile may pick in file system fs: those of no existing file
FreeNames(fs) == {n \in TmpNames : fs[n] = None}

\* Written without the write: the new file is left empty
WrittenEmpty(fs, name, text) == [fs EXCEPT ![name] = ""]

\* the file system after `f.write(text)` into the new file `name`
Written(fs, name, text) == [fs EXCEPT ![name] = text]

\* the accordion as create_ui builds it: boxes unchecked, inputs hidden
PanelInit ==
    [use_audio_prompt |-> FALSE, use_dual_tracks_prompt |-> FALSE,
     audio_prompt |-> FALSE, vocal_track |-> FALSE, instrumental_track |-> FALSE,
     prompt_start_time |-> FALSE, prompt_end_time |-> FALSE]

Init ==
    /\ tmp = [n \in TmpNames |-> None]
    /\ outdir = [f \in OutFiles |-> 0]
    /\ outDirExists \in BOOLEAN
    /\ api = ApiIdle
    /\ apiProc = "none"
    /\ ui = [u \in UiSlots |-> UiIdle]
    /\ panel = PanelInit

(***************************************************************************)
(* POST /api/generate: the whole of generate_music.                        *)
(* fault names the NamedTemporaryFile call the environment fails, if any.  *)
(***************************************************************************)
\* the response of the `return {...}` at the end of the try block
ApiAccepted ==
    [status |-> "accepted", message |-> "Music generation started",
     output_dir |-> OUTPUT_DIR,
     note |-> "This is a placeholder. Actual implementation should run inference asynchronously and return results."]

\* `raise HTTPException(status_code=500, detail=f"Error during inference: {str(e)}")`
ApiErrorDetail(etext) == <<"Error during inference: ">> \o etext

APIGenerate(request, fault) ==
    /\ fault \in {"none", "genre", "lyrics"}
    /\ fault = "genre" => ApiStagesGenre(request)
    /\ fault = "lyrics" => ApiStagesLyrics(request)
    /\ \E g \in (IF ApiStagesGenre(request) /\ fault # "genre"
                 THEN FreeNames(tmp) ELSE {None}) :
         LET fsG == IF g # None THEN Written(tmp, g, request.genre_txt) ELSE tmp
             cmdG == ApiPrefix(request) \o ApiGenreArgs(request, g)
         IN
         IF fault = "genre"
         THEN /\ tmp' = tmp
              /\ api' = [pc |-> "done", request |-> request, cmd |-> ApiPrefix(request),
                         staged |-> {}, status_code |-> 500, body |-> Unset,
                         detail |-> ApiErrorDetail(TmpErrorText)]
         ELSE \E l \in (IF ApiStagesLyrics(request) /\ fault # "lyrics"
                        THEN FreeNames(fsG) ELSE {None}) :
                LET fsL == IF l # None THEN Written(fsG, l, request.lyrics_txt) ELSE fsG
                    cmdL == cmdG \o ApiLyricsArgs(request, l)
                IN
                IF fault = "lyrics"
                THEN /\ tmp' = fsG
                     /\ api' = [pc |-> "done", request |-> request, cmd |-> cmdG,
                                staged |-> {g} \ {None}, status_code |-> 500,
                                body |-> Unset, detail |-> ApiErrorDetail(TmpErrorText)]
                ELSE /\ tmp' = fsL
                     /\ api' = [pc |-> "done", request |-> request,
                                cmd |-> cmdL \o ApiPromptArgs(request),
                                staged |-> {g, l} \ {None}, status_code |-> 200,
                                body |-> ApiAccepted, detail |-> <<>>]
    /\ UNCHANGED <<outdir, outDirExists, apiProc, ui, panel>>


(***************************************************************************)
(* The UI's Generate button: generate_wrapper, then run_inference up to    *)
(* subprocess.run. fault names the call the environment fails, if any.     *)
(***************************************************************************)
\* `return None, f"Exception: {str(e)}"`
UiExceptionStatus(etext) == <<"Exception: ">> \o etext

\* the frame when an exception ends run_inference
UiRaised(a, cmd, staged, runs, etext) ==
    [pc |-> "done", args |-> a, cmd |-> cmd, staged |-> staged, runs |-> runs,
     result |-> Unset, scanned |-> FALSE, audio_files |-> <<>>,
     ret |-> "exception", audio |-> None, status |-> UiExceptionStatus(etext)]

\* the frame while subprocess.run blocks on the child process
UiRunning(a, cmd, staged) ==
    [pc |-> "running", args |-> a, cmd |-> cmd, staged |-> staged, runs |-> 1,
     result |-> Unset, scanned |-> FALSE, audio_files |-> <<>>,
     ret |-> "", audio |-> None, status |-> <<>>]

UIGenerate(u, w, fault) ==
    LET a == WrapperArgs(w) IN
    /\ ui[u].pc \in {"idle", "done"}
    /\ fault \in {"none", "genre", "lyrics", "launch"}
    /\ fault = "genre" => UiStagesGenre(a)
    /\ fault = "lyrics" => UiStagesLyrics(a)
    /\ \E g \in (IF UiStagesGenre(a) /\ fault # "genre"
                 THEN FreeNames(tmp) ELSE {None}) :
         LET fsG == IF g # None THEN Written(tmp, g, a.genre_txt) ELSE tmp
             cmdG == UiPrefix(a) \o UiGenreArgs(a, g)
         IN
         IF fault = "genre"
         THEN /\ tmp' = tmp
              /\ ui' = [ui EXCEPT ![u] = UiRaised(a, UiPrefix(a), {}, 0, TmpErrorText)]
         ELSE \E l \in (IF UiStagesLyrics(a) /\ fault # "lyrics"
                        THEN FreeNames(fsG) ELSE {None}) :
                LET fsL == IF l # None THEN Written(fsG, l, a.lyrics_txt) ELSE fsG
                    cmd == cmdG \o UiLyricsArgs(a, l) \o UiPromptArgs(a)
                IN
                IF fault = "lyrics"
                THEN /\ tmp' = fsG
                     /\ ui' = [ui EXCEPT ![u] =
                                 UiRaised(a, cmdG, {g} \ {None}, 0, TmpErrorText)]
                ELSE /\ tmp' = fsL
                     /\ ui' = [ui EXCEPT ![u] =
                                 IF fault = "launch"
                                 THEN UiRaised(a, cmd, {g, l} \ {None}, 1, LaunchErrorText)
                                 ELSE UiRunning(a, cmd, {g, l} \ {None})]
    /\ UNCHANGED <<outdir, outDirExists, api, apiProc, panel>>

(***************************************************************************)
(* The external program, while subprocess.run waits for it.                *)
(***************************************************************************)
\* the greatest modification time in OUTPUT_DIR (0 when it holds nothing)
LatestMtime(dir) == CHOOSE t \in 0..MaxTime :
    /\ \A f \in OutFiles : dir[f] <= t
    /\ (t = 0 \/ \E f \in OutFiles : dir[f] = t)

\* it writes (or rewrites) file f at time t; time does not run backwards
ProcWrite(u, f, t) ==
    /\ ui[u].pc = "running"
    /\ t \in 1..MaxTime
    /\ t >= LatestMtime(outdir)
    /\ outdir' = [outdir EXCEPT ![f] = t]
    /\ outDirExists' = TRUE
    /\ UNCHANGED <<tmp, api, apiProc, ui, panel>>

\* it ends: subprocess.run returns `result`
ProcExit(u, res) ==
    /\ ui[u].pc = "running"
    /\ ui' = [ui EXCEPT ![u].pc = "exited", ![u].result = res]
    /\ UNCHANGED <<tmp, outdir, outDirExists, api, apiProc, panel>>

(***************************************************************************)
(* run_inference after subprocess.run: exit code, scan, selection.         *)
(***************************************************************************)
\* all orders in which the files of set S can be listed
RECURSIVE Listings(_)
Listings(S) ==
    IF S = {} THEN {<<>>}
    ELSE UNION {{<<f>> \o rest : rest \in Listings(S \ {f})} : f \in S}

\* output_path.glob("*.<ext>") when the directory lists its files in `order`
Glob(order, ext) == SelectSeq(order, LAMBDA f : f.ext = ext)

\* AudioFiles without the second glob
AudioFilesMp3Only(order) == Glob(order, "mp3")

\* list(output_path.glob("*.mp3")) + list(output_path.glob("*.wav"))
AudioFiles(order) == Glob(order, "mp3") \o Glob(order, "wav")

\* max(audio_files, key=lambda p: p.stat().st_mtime): the first of the greatest
LatestFile(audio_files, dir) ==
    LET best == CHOOSE i \in 1..Len(audio_files) :
            /\ \A j \in 1..Len(audio_files) : dir[audio_files[j]] <= dir[audio_files[i]]
            /\ \A j \in 1..(i - 1) : dir[audio_files[j]] < dir[audio_files[i]]
    IN audio_files[best]

\* ErrorStatus without the command
ErrorStatusNoCommand(result, cmd) == <<"Error: ", result.stderr>>

\* f"Error: {result.stderr}\n\nCommand: {' '.join(cmd)}"
ErrorStatus(result, cmd) == <<"Error: ", result.stderr, "\n\nCommand: ">> \o Join(cmd)

\* f"Output directory {OUTPUT_DIR} does not exist."
NoDirStatus == <<"Output directory ", OUTPUT_DIR, " does not exist.">>

\* the success text (its leading check mark left out)
SuccessStatus(audio_files, latest_file) ==
    <<"Success! Generated ", ToString(Len(audio_files)), " file(s).\nLatest: ",
      FileName(latest_file), "\n\nOutput directory: ", OUTPUT_DIR>>

\* NoAudioStatus reusing the text of the non-zero exit
NoAudioStatusAsError(result) == <<"Error: ", result.stderr, "\n\nCommand: ">>

\* f"Generation completed but no audio files found in {OUTPUT_DIR}. ..."
NoAudioStatus(result) ==
    <<"Generation completed but no audio files found in ", OUTPUT_DIR,
      ".\n\nCommand output: ", result.stdout>>

UIResolve(u) ==
    LET fr == ui[u] IN
    /\ fr.pc = "exited"
    /\ IF fr.result.returncode # 0
       THEN ui' = [ui EXCEPT ![u].pc = "done", ![u].ret = "error", ![u].audio = None,
                             ![u].status = ErrorStatus(fr.result, fr.cmd)]
       ELSE IF ~outDirExists
       THEN ui' = [ui EXCEPT ![u].pc = "done", ![u].ret = "nodir", ![u].audio = None,
                             ![u].status = NoDirStatus]
       ELSE \E order \in Listings({f \in OutFiles : outdir[f] > 0}) :
              LET audio_files == AudioFiles(order) IN
              IF audio_files # <<>>
              THEN ui' = [ui EXCEPT ![u].pc = "done", ![u].ret = "success",
                                    ![u].scanned = TRUE,
                                    ![u].audio_files = audio_files,
                                    ![u].audio = FilePath(LatestFile(audio_files, outdir)),
                                    ![u].status = SuccessStatus(audio_files,
                                                     LatestFile(audio_files, outdir))]
              ELSE ui' = [ui EXCEPT ![u].pc = "done", ![u].ret = "noaudio",
                                    ![u].scanned = TRUE,
                                    ![u].audio_files = audio_files,
                                    ![u].audio = None,
                                    ![u].status = NoAudioStatus(fr.result)]
    /\ UNCHANGED <<tmp, outdir, outDirExists, api, apiProc, panel>>


(***************************************************************************)
(* Inputs.                                                                 *)
(***************************************************************************)
GenreText == "pop upbeat"
LyricsText == "[verse]\nhello"

\* InferenceRequest with every field at its default
ApiBase ==
    [genre_txt |-> None, lyrics_txt |-> None, genre_file |-> None, lyrics_file |-> None,
     run_n_segments |-> PyInt(2), stage2_batch_size |-> PyInt(4),
     max_new_tokens |-> PyInt(3000), repetition_penalty |-> PyFloat(11),
     use_audio_prompt |-> FALSE, audio_prompt_path |-> None,
     prompt_start_time |-> PyInt(0), prompt_end_time |-> PyInt(30),
     use_dual_tracks_prompt |-> FALSE, vocal_track_prompt_path |-> None,
     instrumental_track_prompt_path |-> None]

\* the request bodies the composition is checked on (a float sent in JSON stays a
\* float, an omitted time keeps its int default)
ApiRequests ==
    [genre_txt : {None, "", GenreText}, lyrics_txt : {None, "", LyricsText},
     genre_file : {None, "", "/data/genre.txt"},
     lyrics_file : {None, "", "/data/lyrics.txt"},
     run_n_segments : {PyInt(2), PyInt(1)}, stage2_batch_size : {PyInt(4)},
     max_new_tokens : {PyInt(3000)}, repetition_penalty : {PyFloat(11)},
     use_audio_prompt : BOOLEAN, audio_prompt_path : {None, "/in/ref.wav"},
     prompt_start_time : {PyInt(0), PyFloat(50)},
     prompt_end_time : {PyInt(30), PyFloat(200)},
     use_dual_tracks_prompt : BOOLEAN,
     vocal_track_prompt_path : {None, "/in/vocal.wav"},
     instrumental_track_prompt_path : {None, "/in/inst.wav"}]

\* a few request bodies for runs of many requests
ApiRequestsSmall ==
    {ApiBase,
     [ApiBase EXCEPT !.genre_txt = GenreText, !.lyrics_txt = LyricsText,
                     !.run_n_segments = PyInt(1)],
     [ApiBase EXCEPT !.genre_file = "/data/genre.txt", !.genre_txt = GenreText,
                     !.lyrics_txt = LyricsText],
     [ApiBase EXCEPT !.use_dual_tracks_prompt = TRUE,
                     !.vocal_track_prompt_path = "/in/vocal.wav",
                     !.prompt_start_time = PyFloat(50),
                     !.prompt_end_time = PyFloat(200)]}

\* the widgets of create_ui at their initial values (texts shortened)
WidgetBase ==
    [genre |-> GenreText, lyrics |-> LyricsText,
     segments |-> PyInt(2), batch_size |-> PyInt(4), max_tokens |-> PyInt(3000),
     rep_penalty |-> PyFloat(11),
     use_audio |-> FALSE, audio_path |-> None,
     start_time |-> PyFloat(0), end_time |-> PyFloat(300),
     use_dual |-> FALSE, vocal_path |-> None, inst_path |-> None,
     s1_model |-> STAGE1_MODEL, s2_model |-> STAGE2_MODEL]

\* the widget values the composition is checked on
UiWidgets ==
    [genre : {None, "", GenreText}, lyrics : {None, "", LyricsText},
     segments : {PyInt(2), PyFloat(10)}, batch_size : {PyInt(4)},
     max_tokens : {PyInt(3000)}, rep_penalty : {PyFloat(11), PyInt(1)},
     use_audio : BOOLEAN, audio_path : {None, "/in/ref.wav"},
     start_time : {PyNone, PyFloat(50)}, end_time : {PyFloat(0), PyFloat(200)},
     use_dual : BOOLEAN, vocal_path : {None, "/in/vocal.wav"},
     inst_path : {None, "/in/inst.wav"},
     s1_model : {STAGE1_MODEL, "m-a-p/YuE-s1-7B-anneal-zh-cot"},
     s2_model : {STAGE2_MODEL}]

\* a few widget settings for runs of many requests
UiWidgetsSmall ==
    {WidgetBase,
     [WidgetBase EXCEPT !.lyrics = ""],
     [WidgetBase EXCEPT !.genre = "", !.lyrics = "", !.use_audio = TRUE,
                        !.audio_path = "/in/ref.wav"]}

\* widget settings that stage nothing, for runs about the output directory
UiWidgetsPlain == {[WidgetBase EXCEPT !.genre = "", !.lyrics = ""]}

(***************************************************************************)
(* Spec: requests one after another on both front doors.                   *)
(***************************************************************************)
ApiCall ==
    \E request \in ApiRequestsSmall, fault \in {"none", "genre", "lyrics"} :
        APIGenerate(request, fault)

UiClick ==
    \E w \in UiWidgetsSmall, fault \in {"none", "genre", "lyrics", "launch"} :
        UIGenerate("u1", w, fault)

ProgramWrites ==
    \E f \in {g \in OutFiles : g.stem \in {"b", "d"}}, t \in 1..MaxTime :
        ProcWrite("u1", f, t)

ProgramExits == \E res \in ProcResults : ProcExit("u1", res)

UiResolves == UIResolve("u1")

Next == ApiCall \/ UiClick \/ ProgramWrites \/ ProgramExits \/ UiResolves

Spec == Init /\ [][Next]_vars

\* the server keeps taking steps (the event loop and the worker threads run)
FairSpec == Spec /\ WF_vars(Next)

(***************************************************************************)
(* SpecCompose: one request, of any shape, on either front door, with the  *)
(* temporary directory empty or holding a file an earlier request left.    *)
(***************************************************************************)
InitCompose ==
    /\ tmp \in {fs \in [TmpNames -> {None, GenreText}] :
                   Cardinality({n \in TmpNames : fs[n] # None}) <= 1}
    /\ outdir = [f \in OutFiles |-> 0]
    /\ outDirExists = TRUE
    /\ api = ApiIdle
    /\ apiProc = "none"
    /\ ui = [u \in UiSlots |-> UiIdle]
    /\ panel = PanelInit

Fresh == api.pc = "idle" /\ \A u \in UiSlots : ui[u].pc = "idle"

ComposeApi ==
    /\ Fresh
    /\ \E request \in ApiRequests, fault \in {"none", "genre", "lyrics"} :
           APIGenerate(request, fault)

ComposeUi ==
    /\ Fresh
    /\ \E w \in UiWidgets, fault \in {"none", "genre", "lyrics", "launch"} :
           UIGenerate("u1", w, fault)

NextCompose == ComposeApi \/ ComposeUi

SpecCompose == InitCompose /\ [][NextCompose]_vars

(***************************************************************************)
(* SpecResolve: UI requests that stage nothing, with every file of the     *)
(* output directory in play.                                               *)
(***************************************************************************)
ResolveClick == \E fault \in {"none", "launch"}, w \in UiWidgetsPlain :
    UIGenerate("u1", w, fault)

ResolveWrites == \E f \in OutFiles, t \in 1..MaxTime : ProcWrite("u1", f, t)

NextResolve == ResolveClick \/ ResolveWrites \/ ProgramExits \/ UiResolves

SpecResolve == Init /\ [][NextResolve]_vars


(***************************************************************************)
(* Vocabulary of the properties.                                           *)
(***************************************************************************)
\* the flags of a command, in the order they appear
FlagsOf(cmd) == SelectSeq(cmd, LAMBDA x : x \in Flags)

HasFlag(cmd, f) == \E i \in 1..Len(cmd) : cmd[i] = f
Count(cmd, f) == Cardinality({i \in 1..Len(cmd) : cmd[i] = f})

\* flag f appears in cmd, followed by value v
FlagHasValue(cmd, f, v) == \E i \in 1..(Len(cmd) - 1) : cmd[i] = f /\ cmd[i + 1] = v

\* the handler runs whose command is complete: the request (for the UI, the
\* arguments of run_inference), the command, the temporary files it made
Composed ==
    (IF api.pc = "done" /\ api.status_code = 200
     THEN {[who |-> "api", req |-> api.request, cmd |-> api.cmd, staged |-> api.staged]}
     ELSE {})
    \cup {[who |-> "ui", req |-> ui[u].args, cmd |-> ui[u].cmd, staged |-> ui[u].staged] :
            u \in {v \in UiSlots : ui[v].pc # "idle" /\ ui[v].runs = 1}}

\* the file reference of a field of a request (the UI has none)
GenreFileOf(c) == IF c.who = "api" THEN c.req.genre_file ELSE None
LyricsFileOf(c) == IF c.who = "api" THEN c.req.lyrics_file ELSE None

\* the documented order of the flags (the two modes never meet in one command)
GrammarOrder ==
    PrefixFlags \o
    <<"--genre_txt", "--lyrics_txt", "--use_audio_prompt", "--use_dual_tracks_prompt",
      "--audio_prompt_path", "--vocal_track_prompt_path",
      "--instrumental_track_prompt_path", "--prompt_start_time", "--prompt_end_time">>

GrammarRank(f) == CHOOSE i \in 1..Len(GrammarOrder) : GrammarOrder[i] = f

InGrammarOrder(cmd) ==
    LET fl == FlagsOf(cmd) IN
    /\ Len(fl) >= Len(PrefixFlags)
    /\ SubSeq(fl, 1, Len(PrefixFlags)) = PrefixFlags
    /\ \A i \in 1..(Len(fl) - 1) : GrammarRank(fl[i]) < GrammarRank(fl[i + 1])

\* `<program> --flag value ...`: every flag but a mode flag carries one value
WellPaired(cmd) ==
    /\ Len(cmd) >= 2 /\ cmd[1] = "python" /\ cmd[2] = INFERENCE_SCRIPT
    /\ \A i \in 3..Len(cmd) :
         IF cmd[i] \in Flags \ ModeFlags
         THEN i < Len(cmd) /\ cmd[i + 1] \notin Flags
         ELSE IF cmd[i] \in ModeFlags THEN TRUE
         ELSE cmd[i - 1] \in Flags \ ModeFlags

(***************************************************************************)
(* C1. Every composed command (API and UI) lists its flags in the order of *)
(* the documented grammar: the eight prefix flags always and in order,     *)
(* then the optional --genre_txt, --lyrics_txt, then the prompt flags      *)
(* (mode, paths, start, end); no flag appears twice.                       *)
(***************************************************************************)
C1_GrammarOrder == \A c \in Composed : InGrammarOrder(c.cmd) /\ WellPaired(c.cmd)

\* a UI command that carries all fifteen flags a dual-track request can have
C1_Witness ==
    \E c \in Composed : c.who = "ui" /\ Len(FlagsOf(c.cmd)) = 15 /\ Len(c.cmd) = 31

(***************************************************************************)
(* C4. No composed command holds both mode flags; when both modes are      *)
(* requested only --use_dual_tracks_prompt is emitted and                  *)
(* --audio_prompt_path is absent.                                          *)
(***************************************************************************)
C4_ModesExclusive ==
    \A c \in Composed :
        /\ ~(HasFlag(c.cmd, "--use_dual_tracks_prompt") /\ HasFlag(c.cmd, "--use_audio_prompt"))
        /\ (c.req.use_dual_tracks_prompt /\ c.req.use_audio_prompt)
             => /\ HasFlag(c.cmd, "--use_dual_tracks_prompt")
                /\ ~HasFlag(c.cmd, "--use_audio_prompt")
                /\ ~HasFlag(c.cmd, "--audio_prompt_path")

\* an API request that asks for both modes and names a single-track path
C4_Witness ==
    \E c \in Composed :
        /\ c.who = "api"
        /\ c.req.use_dual_tracks_prompt /\ c.req.use_audio_prompt
        /\ Truthy(c.req.audio_prompt_path)

(***************************************************************************)
(* C7. Prompt-flag presence: an active mode emits its mode flag even with  *)
(* no path set; each path flag is present iff its path is set (with that   *)
(* path); the two time-bound flags are present with the request's values;  *)
(* without a mode no mode, path or time-bound flag appears.                *)
(***************************************************************************)
PathRule(c, flag, path, active) ==
    /\ HasFlag(c.cmd, flag) <=> (active /\ Truthy(path))
    /\ HasFlag(c.cmd, flag) => FlagHasValue(c.cmd, flag, path) /\ Count(c.cmd, flag) = 1

TimeRule(c, flag, t, active) ==
    /\ HasFlag(c.cmd, flag) <=> active
    /\ HasFlag(c.cmd, flag) => FlagHasValue(c.cmd, flag, PyStr(t)) /\ Count(c.cmd, flag) = 1

C7_PromptFlags ==
    \A c \in Composed :
        LET dual == c.req.use_dual_tracks_prompt
            single == ~dual /\ c.req.use_audio_prompt
        IN
        /\ HasFlag(c.cmd, "--use_dual_tracks_prompt") <=> dual
        /\ HasFlag(c.cmd, "--use_audio_prompt") <=> single
        /\ PathRule(c, "--vocal_track_prompt_path", c.req.vocal_track_prompt_path, dual)
        /\ PathRule(c, "--instrumental_track_prompt_path",
                    c.req.instrumental_track_prompt_path, dual)
        /\ PathRule(c, "--audio_prompt_path", c.req.audio_prompt_path, single)
        /\ TimeRule(c, "--prompt_start_time", c.req.prompt_start_time, dual \/ single)
        /\ TimeRule(c, "--prompt_end_time", c.req.prompt_end_time, dual \/ single)

\* a dual-track UI command with the vocal path alone, and times 5.0 and 20.0
C7_Witness ==
    \E c \in Composed :
        /\ c.who = "ui"
        /\ c.req.use_dual_tracks_prompt
        /\ Truthy(c.req.vocal_track_prompt_path)
        /\ ~Truthy(c.req.instrumental_track_prompt_path)
        /\ FlagHasValue(c.cmd, "--prompt_start_time", "5.0")
        /\ FlagHasValue(c.cmd, "--prompt_end_time", "20.0")


(***************************************************************************)
(* Staging, seen across the step of a handler that completes a command.    *)
(***************************************************************************)
\* the temporary files a step creates
NewFiles == {n \in TmpNames : tmp[n] = None /\ tmp'[n] # None}

\* a step leaves the files that already exist as they are
OldFilesKept == \A n \in TmpNames : tmp[n] # None => tmp'[n] = tmp[n]

\* free text that has to be staged: no file reference, text non-empty
MustStage(file, text) == ~Truthy(file) /\ Truthy(text)

\* the files the step created that flag `flag` of c.cmd points at
StagedFor(c, flag) == {n \in NewFiles : FlagHasValue(c.cmd, flag, n)}

(***************************************************************************)
(* C5. API composer, for genre and independently for lyrics: when a file   *)
(* reference is supplied (a non-empty path) the field's flag carries       *)
(* exactly that path and no temporary file is created for the field,       *)
(* whether or not free text for the field is supplied too.                 *)
(***************************************************************************)
FileRefRule(c, flag, file, otherflag) ==
    Truthy(file) =>
        /\ FlagHasValue(c.cmd, flag, file)
        /\ Count(c.cmd, flag) = 1
        /\ StagedFor(c, flag) = {}
        /\ NewFiles = StagedFor(c, otherflag)

C5_FileReferenceWins ==
    [][\A c \in Composed' \ Composed :
          c.who = "api" =>
              /\ FileRefRule(c, "--genre_txt", c.req.genre_file, "--lyrics_txt")
              /\ FileRefRule(c, "--lyrics_txt", c.req.lyrics_file, "--genre_txt")
              /\ OldFilesKept]_vars

\* an API request with a genre file and genre text, whose lyrics text was staged
C5_Witness ==
    \E c \in Composed :
        /\ c.who = "api"
        /\ Truthy(c.req.genre_file) /\ Truthy(c.req.genre_txt)
        /\ FlagHasValue(c.cmd, "--genre_txt", c.req.genre_file)
        /\ Cardinality(c.staged) = 1

(***************************************************************************)
(* C6. For genre and for lyrics with no file reference: non-empty text     *)
(* makes exactly one new, uniquely named temporary file whose content is   *)
(* that text and whose path the field's flag carries (the two files of one *)
(* request have distinct paths); empty or absent text omits the flag and   *)
(* creates no file.                                                        *)
(***************************************************************************)
StageRule(c, flag, file, text) ==
    /\ MustStage(file, text) =>
          /\ Count(c.cmd, flag) = 1
          /\ Cardinality(StagedFor(c, flag)) = 1
          /\ \A n \in StagedFor(c, flag) : tmp'[n] = text /\ n \in c.staged
    /\ (~Truthy(file) /\ ~Truthy(text)) =>
          /\ ~HasFlag(c.cmd, flag)
          /\ StagedFor(c, flag) = {}

C6_FreeTextStaged ==
    [][\A c \in Composed' \ Composed :
          /\ StageRule(c, "--genre_txt", GenreFileOf(c), c.req.genre_txt)
          /\ StageRule(c, "--lyrics_txt", LyricsFileOf(c), c.req.lyrics_txt)
          /\ StagedFor(c, "--genre_txt") \cap StagedFor(c, "--lyrics_txt") = {}
          /\ NewFiles = StagedFor(c, "--genre_txt") \cup StagedFor(c, "--lyrics_txt")
          /\ NewFiles = c.staged
          /\ OldFilesKept]_vars

\* a UI command whose genre and lyrics were both staged while the temporary
\* directory already held a file
C6_Witness ==
    \E c \in Composed :
        /\ c.who = "ui"
        /\ Cardinality(c.staged) = 2
        /\ \E n \in TmpNames \ c.staged : tmp[n] # None


(***************************************************************************)
(* C2. Every temporary file staged for a request is gone once the handling *)
(* of that request has completed, on every exit path; so whenever no       *)
(* request is being handled the temporary directory holds no staged file.  *)
(***************************************************************************)
C2_StagedFilesReleased ==
    /\ api.pc = "done" => \A n \in api.staged : tmp[n] = None
    /\ \A u \in UiSlots : ui[u].pc = "done" => \A n \in ui[u].staged : tmp[n] = None
    /\ (\A u \in UiSlots : ui[u].pc \in {"idle", "done"}) => \A n \in TmpNames : tmp[n] = None

(***************************************************************************)
(* C3. Every request /api/generate acknowledges with status "accepted" is  *)
(* eventually followed by a run of the external program for it.            *)
(***************************************************************************)
C3_AcceptedThenInvoked ==
    (api.pc = "done" /\ api.status_code = 200 /\ api.body.status = "accepted")
        ~> (apiProc # "none")

(***************************************************************************)
(* C8. When the external program ran and exited non-zero, the response has *)
(* no artifact, its status text contains the captured standard error and   *)
(* the full composed command, the output directory was not scanned and the *)
(* program was run once for the request.                                   *)
(***************************************************************************)
C8_NonZeroExit ==
    \A u \in UiSlots :
        (ui[u].pc = "done" /\ ui[u].ret # "exception" /\ ui[u].result.returncode # 0)
        => /\ ui[u].audio = None
           /\ Contains(ui[u].status, <<ui[u].result.stderr>>)
           /\ Contains(ui[u].status, Join(ui[u].cmd))
           /\ ~ui[u].scanned
           /\ ui[u].runs = 1

\* a request with two staged files whose run ended with exit code 1 and "CUDA OOM"
C8_Witness ==
    \E u \in UiSlots :
        /\ ui[u].pc = "done" /\ ui[u].ret # "exception"
        /\ ui[u].result.returncode = 1 /\ ui[u].result.stderr = "CUDA OOM"
        /\ Cardinality(ui[u].staged) = 2
        /\ Len(ui[u].cmd) = 22

(***************************************************************************)
(* C9. Every failure of a request whose command was composed (the program  *)
(* could not be started, it exited non-zero, no artifact was found)        *)
(* reports a status text that includes the full composed command.          *)
(***************************************************************************)
C9_FailuresCarryCommand ==
    \A u \in UiSlots :
        (ui[u].pc = "done" /\ ui[u].runs = 1 /\ ui[u].audio = None)
        => Contains(ui[u].status, Join(ui[u].cmd))

(***************************************************************************)
(* C10. After a zero-exit run with audio files in the output directory the *)
(* returned artifact is a file of greatest modification time, and among    *)
(* several such files the choice follows the lexical order of the paths    *)
(* (the first or the last of them), whatever the extensions and whatever   *)
(* the order in which the directory lists its files.                       *)
(***************************************************************************)
\* the order of the paths as strings: the stem, then the extension
LexKey(f) ==
    (CASE f.stem = "a" -> 1 [] f.stem = "b" -> 2 [] f.stem = "c" -> 3 [] f.stem = "d" -> 4) * 10
    + (CASE f.ext = "mp3" -> 1 [] f.ext = "txt" -> 2 [] f.ext = "wav" -> 3)

AudioPresent == {f \in OutFiles : outdir[f] > 0 /\ f.ext \in {"mp3", "wav"}}
Freshest == {f \in AudioPresent : \A g \in AudioPresent : outdir[g] <= outdir[f]}
LexFirst(S) == CHOOSE f \in S : \A g \in S : LexKey(f) <= LexKey(g)
LexLast(S) == CHOOSE f \in S : \A g \in S : LexKey(g) <= LexKey(f)

C10_LatestThenLexical ==
    \A u \in UiSlots :
        (ui[u].pc = "done" /\ ui[u].ret = "success")
        => /\ \E f \in Freshest : ui[u].audio = FilePath(f)
           /\ ui[u].audio \in {FilePath(LexFirst(Freshest)), FilePath(LexLast(Freshest))}
           /\ \A order \in Listings({f \in OutFiles : outdir[f] > 0}) :
                FilePath(LatestFile(AudioFiles(order), outdir)) = ui[u].audio

(***************************************************************************)
(* C11. When the external program exited with code zero and the output     *)
(* directory holds no .mp3 and no .wav file when the handler looks (it may *)
(* hold other files, or not exist), the response has no artifact and a     *)
(* status text that is neither a success text nor the text of a failed     *)
(* invocation.                                                             *)
(***************************************************************************)
\* the success texts run_inference can produce
SuccessTexts ==
    {SuccessStatus(SubSeq(<<f, f, f>>, 1, n), f) :
        n \in 1..3, f \in {g \in OutFiles : g.ext \in {"mp3", "wav"}}}

C11_NoArtifactMessage ==
    \A u \in UiSlots :
        (/\ ui[u].pc = "done" /\ ui[u].ret # "exception"
         /\ ui[u].result.returncode = 0
         /\ AudioPresent = {})
        => /\ ui[u].audio = None
           /\ ui[u].status # <<>>
           /\ ui[u].status \notin SuccessTexts
           /\ ui[u].status[1] # "Success! Generated "
           /\ ui[u].status # ErrorStatus(ui[u].result, ui[u].cmd)
           /\ ui[u].status[1] # "Error: "

\* a zero-exit run that left only d.txt in the output directory
C11_Witness ==
    \E u \in UiSlots :
        /\ ui[u].pc = "done" /\ ui[u].ret = "noaudio"
        /\ ui[u].result.returncode = 0
        /\ AudioPresent = {}
        /\ \E f \in OutFiles : f.ext = "txt" /\ outdir[f] > 0
        /\ ui[u].audio = None
        /\ ui[u].status = NoAudioStatus(ui[u].result)

(***************************************************************************)
(* SpecTimes: API requests one after another whose prompt times take every *)
(* shape: defaults, a negative start, an end equal to or before the start. *)
(***************************************************************************)
\* request bodies with a single-track prompt and the time bounds varied
ApiRequestsTimes ==
    {[ApiBase EXCEPT !.genre_txt = g, !.use_audio_prompt = TRUE,
                     !.audio_prompt_path = "/in/ref.wav",
                     !.prompt_start_time = s, !.prompt_end_time = e] :
        g \in {None, GenreText},
        s \in {PyInt(0), PyFloat(-10), PyFloat(50)},
        e \in {PyInt(30), PyFloat(50), PyFloat(10)}}

TimesCall ==
    \E request \in ApiRequestsTimes : APIGenerate(request, "none")

NextTimes == TimesCall

SpecTimes == Init /\ [][NextTimes]_vars

(***************************************************************************)
(* C12. A request whose prompt start time is negative, or whose prompt end *)
(* time is not greater than its start time, is answered with a validation  *)
(* failure (status 400, naming the field) before anything is composed: no  *)
(* command, no temporary file, no run of the program, no acceptance.       *)
(***************************************************************************)
\* the value of a number, in tenths
Tenths(x) == IF x.ty = "int" THEN x.v * 10 ELSE x.v

InvalidTimes(request) ==
    \/ Tenths(request.prompt_start_time) < 0
    \/ Tenths(request.prompt_end_time) <= Tenths(request.prompt_start_time)

C12_InvalidTimesRejected ==
    (api.pc = "done" /\ InvalidTimes(api.request))
    => /\ api.status_code = 400
       /\ \E f \in {"prompt_start_time", "prompt_end_time"} : Contains(api.detail, <<f>>)
       /\ api.body = Unset
       /\ api.cmd = <<>>
       /\ api.staged = {}
       /\ apiProc = "none"

(***************************************************************************)
(* SpecQueue: two browser sessions pressing Generate. The button's handler *)
(* is registered by generate_btn.click(fn, inputs, outputs) with no        *)
(* concurrency_limit and no queue() call, so Gradio's event queue applies  *)
(* its default to the listener: one call of generate_wrapper at a time,    *)
(* later events wait. The program run for session u1 writes a.wav and      *)
(* b.mp3, the one run for session u2 writes c.mp3 and d.txt.               *)
(***************************************************************************)
\* the listener with concurrency_limit=None: any number of calls at a time
QueueFreeUnlimited == TRUE

\* the listener can take the next event: no call of its function is in progress
QueueFree == \A v \in UiSlots : ui[v].pc \notin {"running", "exited"}

QueueClick ==
    /\ QueueFree
    /\ \E u \in UiSlots, w \in UiWidgetsPlain, fault \in {"none", "launch"} :
           UIGenerate(u, w, fault)

\* the files the program run for session u writes
WritesOf(u) == {f \in OutFiles : f.stem \in (IF u = "u1" THEN {"a", "b"} ELSE {"c", "d"})}

QueueWrites == \E u \in UiSlots, t \in 1..MaxTime : \E f \in WritesOf(u) : ProcWrite(u, f, t)

QueueExits == \E u \in UiSlots, res \in ProcResults : ProcExit(u, res)

QueueResolves == \E u \in UiSlots : UIResolve(u)

NextQueue == QueueClick \/ QueueWrites \/ QueueExits \/ QueueResolves

SpecQueue == Init /\ [][NextQueue]_vars

(***************************************************************************)
(* C13. Whatever generation requests are in flight, at most one external   *)
(* inference process is running at any time (all use the one CUDA_IDX).    *)
(***************************************************************************)
\* the sessions whose external program is running
Running == {u \in UiSlots : ui[u].pc = "running"}

ApiRecomposed ==
    /\ api.pc = "done" /\ api.status_code = 200
    /\ api'.pc = "done" /\ api'.status_code = 200
    /\ api'.request = api.request

UiRecomposed(u) ==
    /\ ui[u].pc = "done" /\ ui[u].runs = 1
    /\ ui'[u].pc # "idle" /\ ui'[u].runs = 1
    /\ ui'[u].args = ui[u].args

\* the free text of the request that flag f stands for
TextOf(req, f) == IF f = "--genre_txt" THEN req.genre_txt ELSE req.lyrics_txt

\* cmd1 (staging st1) is cmd0 (staging st0) but for the names of the staged files,
\* and the files cmd1 names hold the texts of the request
SameUpToStaged(req, cmd0, st0, cmd1, st1) ==
    /\ Len(cmd1) = Len(cmd0)
    /\ \A i \in 1..Len(cmd1) :
         /\ cmd1[i] # cmd0[i] =>
               /\ i > 1 /\ cmd1[i - 1] = cmd0[i - 1]
               /\ cmd1[i - 1] \in {"--genre_txt", "--lyrics_txt"}
               /\ cmd0[i] \in st0 /\ cmd1[i] \in st1
         /\ cmd1[i] \in st1 =>
               /\ i > 1 /\ cmd1[i - 1] \in {"--genre_txt", "--lyrics_txt"}
               /\ tmp'[cmd1[i]] = TextOf(req, cmd1[i - 1])
    /\ st1 = {} => cmd1 = cmd0

(***************************************************************************)
(* C14 as stated. Composing the command twice for the same request yields  *)
(* identical argument lists, also when free text is staged into a          *)
(* temporary file.                                                         *)
(***************************************************************************)
C14_ComposeDeterministic ==
    [][/\ ApiRecomposed => api'.cmd = api.cmd
       /\ \A u \in UiSlots : UiRecomposed(u) => ui'[u].cmd = ui[u].cmd]_vars

(***************************************************************************)
(* C14 amended. Composing the command twice for the same request yields    *)
(* the same flags in the same order with the same values, except that a    *)
(* value naming a temporary file staged for genre or lyrics text may name  *)
(* another file, which holds that text; when nothing is staged the two     *)
(* argument lists are identical.                                           *)
(***************************************************************************)
C14_DeterministicUpToStagedNames ==
    [][/\ ApiRecomposed =>
            SameUpToStaged(api.request, api.cmd, api.staged, api'.cmd, api'.staged)
       /\ \A u \in UiSlots : UiRecomposed(u) =>
            SameUpToStaged(ui[u].args, ui[u].cmd, ui[u].staged,
                           ui'[u].cmd, ui'[u].staged)]_vars

\* an API command with a staged file, composed while the temporary directory
\* holds the file an earlier composition staged for the same text
C14_Witness ==
    /\ api.pc = "done" /\ api.status_code = 200
    /\ \E n \in api.staged, m \in TmpNames \ api.staged :
         /\ \E f \in {"--genre_txt", "--lyrics_txt"} :
              FlagHasValue(api.cmd, f, n) /\ tmp[n] = TextOf(api.request, f)
         /\ tmp[m] = tmp[n]

(***************************************************************************)
(* C15. Artifacts are not attributed to invocations. Whenever a request    *)
(* ends in success, the files it reports are all the audio files the       *)
(* shared output directory holds at that moment, whichever run wrote them: *)
(* the count is their number and the artifact is a freshest one of them.   *)
(* So a request can return, as its latest artifact, a file that the run of *)
(* another request wrote, and count files its own run did not produce      *)
(* (C15_Witness is such a response).                                       *)
(***************************************************************************)
\* the files of a listing
Range(seq) == {seq[i] : i \in 1..Len(seq)}

C15_ArtifactsNotAttributed ==
    [][\A u \in UiSlots :
          (ui[u].pc = "exited" /\ ui'[u].pc = "done" /\ ui'[u].ret = "success")
          => /\ Range(ui'[u].audio_files) = AudioPresent
             /\ Len(ui'[u].audio_files) = Cardinality(AudioPresent)
             /\ \E f \in Freshest : ui'[u].audio = FilePath(f)
             /\ ui'[u].status[2] = ToString(Cardinality(AudioPresent))]_vars

\* session u2 is answered with b.mp3 and a.wav, which the run for session u1
\* wrote, while the runs for u2 have produced no audio file
C15_Witness ==
    /\ ui["u2"].pc = "done" /\ ui["u2"].ret = "success"
    /\ ui["u2"].audio \in {FilePath(f) : f \in WritesOf("u1")}
    /\ Len(ui["u2"].audio_files) = 2
    /\ Range(ui["u2"].audio_files) \subseteq WritesOf("u1")
    /\ \A f \in WritesOf("u2") : f.ext \in {"mp3", "wav"} => outdir[f] = 0
    /\ ui["u1"].pc = "done" /\ ui["u1"].runs = 1

(***************************************************************************)
(* SpecPanel: one browser session working the audio prompt accordion and   *)
(* the Generate button, whose handler reads the two checkboxes.            *)
(***************************************************************************)
\* the five gr.update(visible=...) of toggle_audio_prompt, in the order of `outputs`
toggle_audio_prompt(use_single, use_dual) ==
    <<use_single, use_dual, use_dual, use_single \/ use_dual, use_single \/ use_dual>>

\* the page after the updates upd reach outputs=[audio_prompt, vocal_track,
\* instrumental_track, prompt_start_time, prompt_end_time]
Updated(p, upd) ==
    [p EXCEPT !.audio_prompt = upd[1], !.vocal_track = upd[2],
              !.instrumental_track = upd[3],
              !.prompt_start_time = upd[4], !.prompt_end_time = upd[5]]

\* use_audio_prompt.change(fn=lambda x: toggle_audio_prompt(x, False), ...)
UseAudioPromptChange ==
    /\ \E x \in BOOLEAN :
         /\ x # panel.use_audio_prompt
         /\ panel' = Updated([panel EXCEPT !.use_audio_prompt = x],
                             toggle_audio_prompt(x, FALSE))
    /\ UNCHANGED <<tmp, outdir, outDirExists, api, apiProc, ui>>

\* use_dual_tracks_prompt.change(fn=lambda x: toggle_audio_prompt(False, x), ...)
UseDualTracksPromptChange ==
    /\ \E x \in BOOLEAN :
         /\ x # panel.use_dual_tracks_prompt
         /\ panel' = Updated([panel EXCEPT !.use_dual_tracks_prompt = x],
                             toggle_audio_prompt(FALSE, x))
    /\ UNCHANGED <<tmp, outdir, outDirExists, api, apiProc, ui>>

\* the widget values Generate reads: the boxes as they are, a file in an audio
\* input only if the input is on the page to receive one
PanelWidgets ==
    {[WidgetBase EXCEPT !.genre = "", !.lyrics = "",
                        !.use_audio = panel.use_audio_prompt,
                        !.use_dual = panel.use_dual_tracks_prompt,
                        !.audio_path = a, !.vocal_path = v, !.inst_path = v2] :
        a \in (IF panel.audio_prompt THEN {None, "/in/ref.wav"} ELSE {None}),
        v \in (IF panel.vocal_track THEN {None, "/in/vocal.wav"} ELSE {None}),
        v2 \in (IF panel.instrumental_track THEN {None, "/in/inst.wav"} ELSE {None})}

PanelClick == \E w \in PanelWidgets : UIGenerate("u1", w, "none")

NextPanel ==
    \/ UseAudioPromptChange
    \/ UseDualTracksPromptChange
    \/ PanelClick
    \/ ProgramWrites
    \/ ProgramExits
    \/ UiResolves

SpecPanel == Init /\ [][NextPanel]_vars

(***************************************************************************)
(* C16. After any sequence of change events on the two checkboxes, the     *)
(* single-track audio input is visible exactly when the single-track box   *)
(* is checked, the vocal and instrumental inputs exactly when the          *)
(* dual-track box is checked, and the start and end time inputs exactly    *)
(* when at least one of the two boxes is checked.                          *)
(***************************************************************************)
C16_VisibilityAgrees ==
    /\ panel.audio_prompt = panel.use_audio_prompt
    /\ panel.vocal_track = panel.use_dual_tracks_prompt
    /\ panel.instrumental_track = panel.use_dual_tracks_prompt
    /\ panel.prompt_start_time = (panel.use_audio_prompt \/ panel.use_dual_tracks_prompt)
    /\ panel.prompt_end_time = (panel.use_audio_prompt \/ panel.use_dual_tracks_prompt)

=============================================================================
